---- MODULE Spec2Model ----
(***************************************************************************)
(* A model of xl (src/main.go): the run of main() from flag parsing to     *)
(* exit.  The spreadsheet backend (excelize) is the environment: it hands  *)
(* main a list of sheet names and, for every sheet that main opens, a      *)
(* stream of columns, each a sequence of text cells.                       *)
(*                                                                         *)
(* The document is taken to be readable: the I/O and backend errors that   *)
(* efatal reports (main.go:65, 72, 81, 100, 107) are not modelled.  The    *)
(* bufio buffer of out (4096 bytes) never fills within the bounds, so the  *)
(* only flush is the deferred one of a return from main; os.Exit runs no   *)
(* deferred call.                                                          *)
(*                                                                         *)
(* Go slices are 0-based, TLA+ sequences 1-based: Go's col[i] is col[i+1]  *)
(* here, and Go's col[1:] is Tail(col).                                    *)
(***************************************************************************)
EXTENDS Integers, Sequences, FiniteSets, TLC

\* Bounds of the model.
MaxSheets == 2      \* sheets in the workbook
MaxCols == 2        \* columns read during one run, over all sheets (nCols)
MaxCells == 3       \* cells read during one run, over all columns (nRows)

\* Cell texts: one non-blank text and the text of an empty cell.
Cells == {"x", ""}

Columns == UNION {[1..n -> Cells] : n \in 0..MaxCells}

SheetName(i) == "Sheet" \o ToString(i)

VARIABLES
    \* command-line flags (main.go:28-36)
    allSheets, useSheet, noColNames, stripColNames, tableMode, statsMode,
    asJson, asGo, asCSV,
    \* locals of main
    mode, bookTab, bookMat, sheets, nSheets, nRows, nCols, sheetFound, rowSize,
    records, tab,
    \* control: position in main, index of the sheet loop
    pc, si,
    \* streams and exit status: out is the bufio buffer, stdout what reached
    \* the primary output, stderr the diagnostic stream
    out, stdout, stderr, status,
    \* the environment's side: sheets opened with xf.Cols, columns handed out
    entered, read

flags == <<allSheets, useSheet, noColNames, stripColNames, tableMode, statsMode,
           asJson, asGo, asCSV>>
locals == <<mode, bookTab, bookMat, sheets, nSheets, nRows, nCols, sheetFound,
            rowSize, records, tab>>
streams == <<out, stdout, stderr, status>>
vars == <<flags, locals, pc, si, streams, entered, read>>

Map == "Map"
Matrix == "Matrix"
Stats == "Stats"

\* Exit status of a normal return from main.
OkStatus == 0

FatalStatusZero == OkStatus

\* Exit status of fatal: os.Exit(1).
FatalStatus == 1

\* ---------------------------------------------------------------- helpers

Last(s) == s[Len(s)]

Empty == [k \in {} |-> <<>>]

\* m[k] = v on a Go map held as a function.
Put(m, k, v) == [x \in DOMAIN m \cup {k} |-> IF x = k THEN v ELSE m[x]]

\* len(strings.TrimSpace(cell)) > 0
NonBlank(cell) == cell \notin {"", " "}

RECURSIVE SumLen(_)
SumLen(cs) == IF cs = <<>> THEN 0 ELSE Len(Head(cs).col) + SumLen(Tail(cs))

RECURSIVE MaxColLen(_)
MaxColLen(cs) ==
    IF cs = <<>> THEN 0
    ELSE LET m == MaxColLen(Tail(cs))
         IN  IF Len(Head(cs)) > m THEN Len(Head(cs)) ELSE m

\* ------------------------------------------------------- mode resolution

\* The priority order with the matrix-forcing test last.
SelectedModeMatrixLast ==
    LET m1 == IF statsMode THEN Stats ELSE Map
        m2 == IF ~asJson /\ ~asGo /\ ~asCSV THEN Stats ELSE m1
    IN  IF tableMode \/ stripColNames \/ asCSV THEN Matrix ELSE m2

\* main.go:44-61: three assignments in sequence, a later one overriding.
SelectedMode ==
    LET m0 == Map
        m1 == IF tableMode \/ stripColNames \/ asCSV THEN Matrix ELSE m0
        m2 == IF statsMode THEN Stats ELSE m1
    IN  IF ~asJson /\ ~asGo /\ ~asCSV THEN Stats ELSE m2

\* ------------------------------------------------------------ sheet loop

SheetWantedAny(sheet) == TRUE

\* main.go:92: the sheet is skipped when a name is given and differs.
SheetWanted(sheet) == ~(useSheet # "" /\ sheet # useSheet)

BreakNever == FALSE

\* main.go:139: leave the sheet loop after the first processed sheet.
Break == ~allSheets

\* The loop at main.go:129-136 adds one to nRows for every cell.
CountCellsData(col) == IF Len(col) = 0 THEN 0 ELSE Len(col) - 1

CountCells(col) == Len(col)

\* main.go:130-133: the per-column line of Stats mode.
StatsLine(col) ==
    IF Len(col) > 0 /\ ~noColNames /\ NonBlank(col[1]) /\ mode = Stats
    THEN <<[kind |-> "colname", name |-> col[1], col |-> nCols, rows |-> Len(col)]>>
    ELSE <<>>

\* main.go:112: a column with no cell at all cannot be used in Map mode.
MapFails(col) == Len(col) < 1

\* main.go:115-121: the entry a column with at least one cell adds.
MapStore(t, col) ==
    IF Len(col) < 2 THEN Put(t, col[1], <<>>) ELSE Put(t, col[1], Tail(col))

Init ==
    /\ allSheets \in BOOLEAN
    /\ useSheet \in {""} \cup {SheetName(i) : i \in 1..MaxSheets + 1}
    /\ noColNames \in BOOLEAN
    /\ stripColNames \in BOOLEAN
    /\ tableMode \in BOOLEAN
    /\ statsMode \in BOOLEAN
    /\ asJson \in BOOLEAN
    /\ asGo \in BOOLEAN
    /\ asCSV \in BOOLEAN
    /\ sheets = [i \in 1..MaxSheets |-> SheetName(i)]
    /\ mode = Map
    /\ bookTab = Empty
    /\ bookMat = Empty
    /\ nSheets = 0
    /\ nRows = 0
    /\ nCols = 0
    /\ sheetFound = FALSE
    /\ rowSize = 0
    /\ records = <<>>
    /\ tab = <<>>
    /\ pc = "start"
    /\ si = 1
    /\ out = <<>>
    /\ stdout = <<>>
    /\ stderr = <<>>
    /\ status = OkStatus
    /\ entered = <<>>
    /\ read = <<>>

\* main.go:53-61
SelectMode ==
    /\ pc = "start"
    /\ mode' = SelectedMode
    /\ pc' = "sheets"
    /\ UNCHANGED <<flags, bookTab, bookMat, sheets, nSheets, nRows, nCols,
                   sheetFound, rowSize, records, tab, si, streams, entered, read>>

\* main.go:91-94: a sheet whose name is not the requested one is skipped.
SkipSheet ==
    /\ pc = "sheets"
    /\ si <= Len(sheets)
    /\ ~SheetWanted(sheets[si])
    /\ si' = si + 1
    /\ UNCHANGED <<flags, locals, pc, streams, entered, read>>

\* main.go:95-100
EnterSheet ==
    /\ pc = "sheets"
    /\ si <= Len(sheets)
    /\ SheetWanted(sheets[si])
    /\ sheetFound' = TRUE
    /\ bookTab' = Put(bookTab, sheets[si], Empty)
    /\ bookMat' = Put(bookMat, sheets[si], <<>>)
    /\ nSheets' = nSheets + 1
    /\ entered' = Append(entered, sheets[si])
    /\ pc' = "cols"
    /\ UNCHANGED <<flags, mode, sheets, nRows, nCols, rowSize, records, tab, si,
                   streams, read>>

\* main.go:91: the range over sheets is exhausted.
SheetsDone ==
    /\ pc = "sheets"
    /\ si > Len(sheets)
    /\ pc' = "report"
    /\ UNCHANGED <<flags, locals, si, streams, entered, read>>

\* main.go:102-137: one iteration of the column loop, on the column the
\* backend yields next.
ReadColumn ==
    /\ pc = "cols"
    /\ nCols < MaxCols
    /\ \E col \in Columns :
        LET sheet == sheets[si] IN
        /\ nRows + Len(col) <= MaxCells
        /\ nCols' = nCols + 1
        /\ rowSize' = Len(col)
        /\ read' = Append(read, [sheet |-> sheet, col |-> col])
        /\ IF mode = Map /\ MapFails(col)
           THEN /\ stderr' = Append(stderr, [kind |-> "fatal",
                                 msg |-> "can't use Map mode with no title or values",
                                 col |-> nCols, sheet |-> sheet])
                /\ status' = FatalStatus
                /\ pc' = "exit"
                /\ UNCHANGED <<bookTab, bookMat, nRows, out>>
           ELSE /\ bookTab' = IF mode = Map
                              THEN Put(bookTab, sheet, MapStore(bookTab[sheet], col))
                              ELSE bookTab
                /\ bookMat' = IF mode = Matrix
                              THEN Put(bookMat, sheet, Append(bookMat[sheet], col))
                              ELSE bookMat
                /\ out' = out \o StatsLine(col)
                /\ nRows' = nRows + CountCells(col)
                /\ UNCHANGED <<stderr, status, pc>>
    /\ UNCHANGED <<flags, mode, sheets, nSheets, sheetFound, records, tab, si,
                   stdout, entered>>

\* main.go:102 and 139-141: the column stream of the sheet has ended.
EndSheet ==
    /\ pc = "cols"
    /\ IF Break
       THEN pc' = "report" /\ si' = si
       ELSE pc' = "sheets" /\ si' = si + 1
    /\ UNCHANGED <<flags, locals, streams, entered, read>>

\* main.go:144: the diagnostic line.
Info ==
    [kind |-> "info", sheets |-> nSheets, cols |-> nCols, elements |-> nRows,
     nrows |-> rowSize]

\* main.go:144-148: the diagnostic line, then the fatal error when no sheet
\* was processed.
NotFound ==
    /\ pc = "report"
    /\ ~sheetFound
    /\ stderr' = stderr \o <<Info, [kind |-> "fatal",
                                    msg |-> "could not find sheet by name of:",
                                    name |-> useSheet]>>
    /\ status' = FatalStatus
    /\ pc' = "exit"
    /\ UNCHANGED <<flags, locals, si, out, stdout, entered, read>>

\* main.go:183-203: the grid built from the columns in recs.
Transpose(recs) ==
    LET nC == Len(recs)
        nR == MaxColLen(recs)
    IN  [r \in 1..nR |->
            [c \in 1..nC |->
                IF r <= Len(recs[c]) /\ ~(noColNames /\ r = 1)
                THEN recs[c][r]
                ELSE ""]]

\* main.go:179-182: the table handed to the transposition.
DefaultRecords ==
    LET defaultSheet == sheets[1]
    IN  IF defaultSheet \in DOMAIN bookMat THEN bookMat[defaultSheet] ELSE <<>>

\* main.go:144-146, then a return from main, which runs the deferred
\* out.Flush() (main.go:77).
Return(written) ==
    /\ sheetFound
    /\ stderr' = Append(stderr, Info)
    /\ stdout' = stdout \o out \o written
    /\ out' = <<>>
    /\ status' = OkStatus
    /\ pc' = "done"

\* main.go:144-146 and 151-161
EmitJSON ==
    /\ pc = "report"
    /\ asJson
    /\ Return(CASE mode = Matrix -> <<[kind |-> "json", val |-> bookMat]>>
                [] mode = Map -> <<[kind |-> "json", val |-> bookTab]>>
                [] OTHER -> <<>>)
    /\ UNCHANGED <<flags, locals, si, entered, read>>

\* main.go:144-146 and 164-173
EmitGo ==
    /\ pc = "report"
    /\ ~asJson
    /\ asGo
    /\ Return(CASE mode = Matrix -> <<[kind |-> "go", val |-> bookMat]>>
                [] mode = Map -> <<[kind |-> "go", val |-> bookTab]>>
                [] OTHER -> <<>>)
    /\ UNCHANGED <<flags, locals, si, entered, read>>

\* main.go:144-146 and 176-208
EmitCSV ==
    /\ pc = "report"
    /\ ~asJson
    /\ ~asGo
    /\ asCSV
    /\ records' = DefaultRecords
    /\ tab' = Transpose(DefaultRecords)
    /\ Return([r \in 1..Len(tab') |-> [kind |-> "csv", fields |-> tab'[r]]])
    /\ UNCHANGED <<flags, mode, bookTab, bookMat, sheets, nSheets, nRows, nCols,
                   sheetFound, rowSize, si, entered, read>>

\* main.go:144-146 and 209: no output format was requested.
EmitNothing ==
    /\ pc = "report"
    /\ ~asJson
    /\ ~asGo
    /\ ~asCSV
    /\ Return(<<>>)
    /\ UNCHANGED <<flags, locals, si, entered, read>>

Next ==
    \/ SelectMode
    \/ SkipSheet
    \/ EnterSheet
    \/ SheetsDone
    \/ ReadColumn
    \/ EndSheet
    \/ NotFound
    \/ EmitJSON
    \/ EmitGo
    \/ EmitCSV
    \/ EmitNothing

Spec == Init /\ [][Next]_vars

\* ================================================================ claims

NoFormat == ~asJson /\ ~asGo /\ ~asCSV

Range(q) == {q[i] : i \in DOMAIN q}

IsPrefix(p, q) == Len(p) <= Len(q) /\ SubSeq(q, 1, Len(p)) = p

\* The columns the backend yielded for sheet s, in order.
ColsOf(s) ==
    LET hit == SelectSeq(read, LAMBDA e : e.sheet = s)
    IN  [i \in 1..Len(hit) |-> hit[i].col]

\* The sheet loop is done with sheet s.
Processed(s) ==
    /\ s \in Range(entered)
    /\ \/ pc \in {"report", "done"}
       \/ pc \in {"sheets", "cols", "exit"} /\ s # Last(entered)
       \/ pc = "sheets" /\ s = Last(entered)

\* The delimited branch of main has run to its return.
CsvRan == pc = "done" /\ asCSV /\ ~asJson /\ ~asGo

\* ---- C1
\* C1 as stated: Matrix when any matrix-forcing option is set, else
\* Statistics when -stats is set, else Statistics when no output format is
\* requested, else Mapping.
C1_Original ==
    pc # "start" =>
        mode = IF noColNames \/ stripColNames \/ tableMode \/ asCSV THEN Matrix
               ELSE IF statsMode THEN Stats
               ELSE IF NoFormat THEN Stats
               ELSE Map

C1_Resolved ==
    pc # "start" =>
        /\ (statsMode \/ NoFormat) => mode = Stats
        /\ (~statsMode /\ ~NoFormat /\ (tableMode \/ stripColNames \/ asCSV))
               => mode = Matrix
        /\ (~statsMode /\ ~NoFormat /\ ~tableMode /\ ~stripColNames /\ ~asCSV
               /\ ~noColNames) => mode = Map

\* C1, amended: the resolved mode is Statistics when -stats is set or none of
\* -json/-go/-csv is; otherwise Matrix when -table, -striptitles or -csv is
\* set; otherwise, with -notitles unset, Mapping.  Once resolved, the mode
\* never changes.
C1_ModePriority ==
    /\ []C1_Resolved
    /\ [][pc # "start" => mode' = mode]_vars

\* -stats wins over a matrix-forcing option.
C1_Witness ==
    /\ pc = "done"
    /\ statsMode /\ tableMode /\ asJson
    /\ mode = Stats
    /\ Len(read) = 2

\* ---- C2
\* C2: -notitles, -striptitles, -table and -csv, each set with an output
\* format and without -stats, make the run build the Matrix Table and leave
\* the Mapping Table empty.
C2_MatrixForcing ==
    (/\ pc # "start"
     /\ noColNames \/ stripColNames \/ tableMode \/ asCSV
     /\ ~NoFormat
     /\ ~statsMode)
        => /\ mode = Matrix
           /\ \A s \in DOMAIN bookTab : bookTab[s] = Empty

\* ---- C3
\* C3: in Mapping mode, once a sheet is processed, every non-empty column of
\* it is found under its header with exactly its cells after the header, and
\* every key stands for exactly one source column.
C3_MappingKeepsColumns ==
    mode = Map =>
        \A s \in Range(entered) : Processed(s) =>
            LET cs == ColsOf(s) IN
            /\ \A i \in DOMAIN cs : Len(cs[i]) >= 1 =>
                   /\ cs[i][1] \in DOMAIN bookTab[s]
                   /\ bookTab[s][cs[i][1]] = Tail(cs[i])
            /\ \A k \in DOMAIN bookTab[s] :
                   Cardinality({i \in DOMAIN cs : Len(cs[i]) >= 1 /\ cs[i][1] = k}) = 1

\* ---- C4
\* C4: in Mapping mode a column with zero cells ends the run on the spot with
\* a diagnostic naming column and sheet and a non-zero status, and nothing
\* has reached the primary output.
C4_EmptyColumnFatal ==
    (/\ mode = Map
     /\ read # <<>>
     /\ Len(Last(read).col) = 0)
        => /\ pc = "exit"
           /\ status # OkStatus
           /\ stdout = <<>>
           /\ stderr # <<>>
           /\ Last(stderr).kind = "fatal"
           /\ Last(stderr).col = Len(read) - 1
           /\ Last(stderr).sheet = Last(read).sheet

\* An empty column met in the second sheet, after a column of the first.
C4_Witness ==
    /\ mode = Map
    /\ pc = "exit"
    /\ Len(read) = 2
    /\ Len(read[1].col) = 2
    /\ Len(read[2].col) = 0
    /\ read[1].sheet # read[2].sheet

\* ---- C5
\* C5: without -striptitles the delimited grid has max-column-length rows of
\* C cells each, holds column[c][r] at [r][c] wherever the column has a cell,
\* and the empty string elsewhere.
C5_GridIsPaddedTranspose ==
    (CsvRan /\ ~stripColNames) =>
        /\ Len(tab) = MaxColLen(records)
        /\ \A r \in DOMAIN tab :
               /\ Len(tab[r]) = Len(records)
               /\ \A c \in DOMAIN records :
                      tab[r][c] = IF r <= Len(records[c]) THEN records[c][r] ELSE ""

\* ---- C6
\* C6: with -striptitles the grid is the padded transpose of the columns with
\* cell 0 of each dropped: one row fewer, first data cells in row 0.
C6_StripDropsHeaderRow ==
    (CsvRan /\ stripColNames) =>
        LET data == [c \in DOMAIN records |->
                        IF records[c] = <<>> THEN <<>> ELSE Tail(records[c])]
        IN  /\ Len(tab) = MaxColLen(data)
            /\ \A r \in DOMAIN tab :
                   /\ Len(tab[r]) = Len(data)
                   /\ \A c \in DOMAIN data :
                          tab[r][c] = IF r <= Len(data[c]) THEN data[c][r] ELSE ""

\* ---- C7
\* C7: the table that is transposed for delimited output is the Matrix Table
\* of the first sheet in scope, the first sheet the loop processed.
C7_FirstSheetInScope ==
    CsvRan => /\ entered # <<>>
              /\ records = bookMat[entered[1]]

\* ---- C8
NoMatch == useSheet # "" /\ \A i \in DOMAIN sheets : sheets[i] # useSheet

\* C8: when a sheet name is requested that no sheet bears, no sheet is
\* processed, nothing reaches the primary output, and the run ends after the
\* sheet loop with a fatal error naming the requested sheet and a non-zero
\* status.
C8_SheetNotFound ==
    NoMatch =>
        /\ pc \in {"start", "sheets", "report", "exit"}
        /\ entered = <<>>
        /\ out = <<>>
        /\ stdout = <<>>
        /\ pc = "exit" =>
               /\ si > Len(sheets)
               /\ status # OkStatus
               /\ Len(stderr) = 2
               /\ stderr[1].kind = "info"
               /\ stderr[2] = [kind |-> "fatal",
                               msg |-> "could not find sheet by name of:",
                               name |-> useSheet]

C8_Witness ==
    /\ NoMatch
    /\ pc = "exit"
    /\ Len(sheets) >= 2
    /\ mode = Matrix

\* ---- C9
\* C9: after every column the counters are the number of sheets entered, of
\* columns read, of cells in those columns and the length of the last column;
\* the diagnostic line reports the four; and the tables hold what the shape
\* builder put there: counting adds and removes nothing.
C9_Counters ==
    /\ nSheets = Len(entered)
    /\ nCols = Len(read)
    /\ nRows = SumLen(read)
    /\ rowSize = IF read = <<>> THEN 0 ELSE Len(Last(read).col)
    /\ \A i \in DOMAIN stderr : stderr[i].kind = "info" =>
           stderr[i] = [kind |-> "info", sheets |-> nSheets, cols |-> nCols,
                        elements |-> nRows, nrows |-> rowSize]
    /\ pc = "done" =>
           \E i \in DOMAIN stderr : stderr[i].kind = "info"
    /\ \A s \in DOMAIN bookMat :
           bookMat[s] = IF mode = Matrix THEN ColsOf(s) ELSE <<>>
    /\ mode # Map => \A s \in DOMAIN bookTab : bookTab[s] = Empty

\* Two ragged columns counted in Matrix mode.
C9_Witness ==
    /\ pc = "done"
    /\ mode = Matrix
    /\ Len(read) = 2
    /\ Len(read[1].col) = 2
    /\ Len(read[2].col) = 1
    /\ nRows = 3
    /\ rowSize = 1

\* ---- C10
Matching == SelectSeq(sheets, LAMBDA s : useSheet = "" \/ s = useSheet)

Scope ==
    IF allSheets \/ Matching = <<>> THEN Matching ELSE <<Matching[1]>>

\* C10: the sheets processed are, in workbook order and each once, the
\* sheets matching -sheet (all of them with -all, the first one without),
\* and only they contribute to the tables and the counters.
C10_SheetScope ==
    /\ IsPrefix(entered, Scope)
    /\ pc \in {"report", "done"} => entered = Scope
    /\ \A i \in DOMAIN read : read[i].sheet \in Range(entered)
    /\ DOMAIN bookTab = Range(entered)
    /\ DOMAIN bookMat = Range(entered)
    /\ Cardinality(Range(entered)) = Len(entered)

\* Without -all, a two-sheet workbook and no name: only the first sheet.
C10_Witness ==
    /\ pc = "done"
    /\ ~allSheets
    /\ useSheet = ""
    /\ Len(sheets) >= 2
    /\ entered = <<sheets[1]>>
    /\ read # <<>>

====
